---- MODULE Spec2Model ----
(***************************************************************************)
(* Model of the bookshelf query builder of strapi-connector-bookshelf      *)
(* (lib/queries.js): create / update / delete of an entity with its        *)
(* component instances, polymorphic join records and relation links,       *)
(* under the transaction scope chosen by wrapTransaction.                  *)
(*                                                                         *)
(* A database is a record                                                  *)
(*   rows  : the entity table,            {[id, title, extra]}             *)
(*   links : the relation storage,        {[id, alias, target]}            *)
(*   comps : the component tables,        {[uid, id, text, keys]}          *)
(*   joins : the components join table,                                    *)
(*           {[entity, component_type, component_id, field, order]}        *)
(* "db" is the committed database, "otx" the caller's own transaction      *)
(* (the handle a caller may pass as `transacting`), call.w the working     *)
(* copy of the transaction a call opened itself.                           *)
(***************************************************************************)
EXTENDS Integers, Sequences, FiniteSets, TLC

VARIABLES
  client,   \* strapi.connections[model.connection].context.client.config.client
  model,    \* the model definition: componentKeys, attributes, associations
  db,       \* committed database
  seq,      \* auto-increment counters (not transactional)
  otx,      \* the caller's transaction: [open, w]
  call,     \* the call in flight, or the last finished call (pc = "done")
  dirty,    \* TRUE once a failed call has left writes that were not rolled back
  race      \* two update calls made without awaiting the first: [init, mixed, p]

vars == <<client, model, db, seq, otx, call, dirty, race>>

RECURSIVE RunTasks(_, _, _, _, _, _, _)
RECURSIVE deleteComponents(_, _, _)

(* ------------------------------ bounds -------------------------------- *)
MaxEntity == 2      \* entity ids handed out by the backend
MaxComp   == 2      \* component ids handed out per component table
MaxItems  == 2      \* longest array given for a component field

MaxMin    == 2      \* largest min of a component attribute
MaxMax    == 3      \* largest max of a component attribute
MaxLen    == 4      \* longest array handed to a validator alone

Titles  == {"a"}
RichTitles == {"a", "b"}
\* keys a payload may carry besides the title: a declared attribute, a key
\* the model does not declare, a timestamp column
ExtraKeys == {"views", "bogus", "created_at"}
Target  == "t1"

(* ------------------- strapi.components (registry) --------------------- *)
Components == {"section", "hero", "quote"}

CollectionName(uid) ==
  CASE uid = "section" -> "components_sections"
    [] uid = "hero"    -> "components_heroes"
    [] uid = "quote"   -> "components_quotes"

\* Object.keys(strapi.components).find(key => collectionName === component_type)
ComponentOfType(ctype) == CHOOSE uid \in Components : CollectionName(uid) = ctype

(* ----------------------------- schemas -------------------------------- *)
\* configured: which of the keys min, max the attribute definition has
NoAttr == [type |-> "component", component |-> "section", repeatable |-> FALSE,
           required |-> FALSE, configured |-> {}, min |-> 0, max |-> 0,
           components |-> {}]

SectionsAttr == [NoAttr EXCEPT !.repeatable = TRUE, !.required = TRUE,
                               !.configured = {"min", "max"}, !.min = 1, !.max = 2]
HeroAttr     == [NoAttr EXCEPT !.component = "hero"]
ZoneAttr     == [NoAttr EXCEPT !.type = "dynamiczone",
                               !.configured = {"max"}, !.max = 2,
                               !.components = {"section", "quote"}]

Assocs == << [alias |-> "author", nature |-> "manyToOne"],
             [alias |-> "tags",   nature |-> "manyToMany"] >>

\* an article: a title and one required repeatable component field
ArticleModel ==
  [scalars       |-> {"title"},
   componentKeys |-> << "sections" >>,
   attributes    |-> [k \in {"sections"} |-> SectionsAttr],
   associations  |-> << >>]

\* a page: two optional single components of the same component model,
\* "lead" first
PageModel ==
  [scalars       |-> {},
   componentKeys |-> << "lead", "aside" >>,
   attributes    |-> [k \in {"lead", "aside"} |-> NoAttr],
   associations  |-> << >>]

\* a post: one optional single component and two relations
PostModel ==
  [scalars       |-> {},
   componentKeys |-> << "hero" >>,
   attributes    |-> [k \in {"hero"} |-> HeroAttr],
   associations  |-> Assocs]

\* a landing page: one optional dynamic zone of sections and quotes
LandingModel ==
  [scalars       |-> {},
   componentKeys |-> << "zone" >>,
   attributes    |-> [k \in {"zone"} |-> ZoneAttr],
   associations  |-> << >>]

\* a teaser: one optional single component, then a dynamic zone of sections
TeaserZoneAttr == [ZoneAttr EXCEPT !.components = {"section"}]

TeaserModel ==
  [scalars       |-> {},
   componentKeys |-> << "lead", "zone" >>,
   attributes    |-> [k \in {"lead", "zone"} |->
                        IF k = "lead" THEN NoAttr ELSE TeaserZoneAttr],
   associations  |-> << >>]

\* a banner: a required single component, then a required dynamic zone
BannerModel ==
  [scalars       |-> {},
   componentKeys |-> << "lead", "zone" >>,
   attributes    |-> [k \in {"lead", "zone"} |->
                        IF k = "lead" THEN [NoAttr EXCEPT !.required = TRUE]
                        ELSE [TeaserZoneAttr EXCEPT !.required = TRUE]],
   associations  |-> << >>]

\* a note: a title, a number, a declared timestamp and one optional component
NoteModel ==
  [scalars       |-> {"title", "views", "created_at"},
   componentKeys |-> << "hero" >>,
   attributes    |-> [k \in {"hero"} |-> HeroAttr],
   associations  |-> << >>]

\* a model to search: a title (a string, or a rich text), a number and a
\* boolean; client is model.client
SearchModels ==
  { [scalars       |-> {"title", "views", "flag"},
     componentKeys |-> << >>,
     attributes    |-> << >>,
     associations  |-> << >>,
     client        |-> c,
     types         |-> [title |-> t, views |-> "integer", flag |-> "boolean"]] :
      c \in {"pg", "mysql", "sqlite3", "mssql"}, t \in {"string", "richtext"} }

\* one repeatable component or dynamic-zone field "items", for every
\* required, min and max (a key that is not configured is left at 0)
CountAttrs ==
  { [NoAttr EXCEPT !.type = t, !.repeatable = TRUE, !.required = r,
                   !.configured = c, !.min = mn, !.max = mx,
                   !.components = IF t = "dynamiczone" THEN {"section", "quote"} ELSE {}] :
      t \in {"component", "dynamiczone"}, r \in BOOLEAN,
      c \in SUBSET {"min", "max"}, mn \in 0..MaxMin, mx \in 0..MaxMax }
    \ { a \in [type : {"component", "dynamiczone"}, component : {"section"},
                repeatable : {TRUE}, required : BOOLEAN,
                configured : SUBSET {"min", "max"}, min : 0..MaxMin, max : 0..MaxMax,
                components : {{}, {"section", "quote"}}] :
          \/ ("min" \notin a.configured /\ a.min # 0)
          \/ ("max" \notin a.configured /\ a.max # 0) }

CountModel(attr) ==
  [scalars       |-> {},
   componentKeys |-> << "items" >>,
   attributes    |-> [k \in {"items"} |-> attr],
   associations  |-> << >>]

(* ------------------------------ values -------------------------------- *)
Absent   == [kind |-> "absent", items |-> << >>]
Null     == [kind |-> "null",   items |-> << >>]
Other    == [kind |-> "other",  items |-> << >>]     \* a string, a number
Arr(s)   == [kind |-> "array",  items |-> s]
Obj(it)  == [kind |-> "object", items |-> << it >>]

\* one item of a component payload; id = 0: no primary key in the item,
\* comp = "none": no __component key
Item(id, text, comp) == [obj |-> TRUE, id |-> id, text |-> text, comp |-> comp]
NonObject == [obj |-> FALSE, id |-> 0, text |-> "x", comp |-> "none"]

Has(values, key) == values.fields[key].kind # "absent"
HasId(item) == item.id # 0                 \* _.has(value, componentModel.primaryKey)

\* the items a caller sends: a new item carries text "x" and no id, an item
\* naming component id carries text "y" (so a patch in place is visible)
NewItem(comp)      == Item(0, "x", comp)
KeepItem(id, comp) == Item(id, "y", comp)

SeqsUpTo(S, n) == UNION { [1..m -> S] : m \in 0..n }

Range(s) == { s[i] : i \in DOMAIN s }

Perms(n) == { p \in [1..n -> 1..n] : \A i, j \in 1..n : p[i] = p[j] => i = j }

EmptyDB == [rows |-> {}, links |-> {}, comps |-> {}, joins |-> {}]

(* --------------------------- model utils ------------------------------ *)
\* lines 12-16
assocKeys == { model.associations[i].alias : i \in DOMAIN model.associations }
componentKeys == model.componentKeys
componentKeySet == Range(model.componentKeys)

\* model.allAttributes: the declared attributes (the primary key and the
\* timestamps are columns, not declared attributes)
allAttributes == model.scalars \cup assocKeys \cup componentKeySet
timestamps == {"created_at", "updated_at"}

PayloadKeys(values) ==
  (IF values.title # "-" THEN {"title"} ELSE {})
    \cup values.extra
    \cup { a \in DOMAIN values.rel : values.rel[a] # "absent" }
    \cup { k \in DOMAIN values.fields : Has(values, k) }

\* lines 21-23
pickRelations(values) == PayloadKeys(values) \cap assocKeys

\* mutation: the keys are not compared with the declared attributes
selectAttributes_Undeclared(values) ==
  { key \in PayloadKeys(values) :
      /\ key \notin timestamps
      /\ key \notin assocKeys \cup componentKeySet }

\* lines 26-36
excludedKeys == assocKeys \cup componentKeySet
selectAttributes(values) ==
  { key \in PayloadKeys(values) :
      /\ key \notin timestamps
      /\ key \notin excludedKeys
      /\ key \in allAttributes }

(* ---------------------------- validators ------------------------------ *)
\* `min && ...`, `max && ...`: undefined and 0 are both falsy
Truthy(attr, k) == k \in attr.configured /\ attr[k] # 0

\* lines 715-743; 0 = passes, 400 = rejected
validateRepeatableInput(value, attr) ==
  IF value.kind # "array" THEN 400
  ELSE IF \E i \in DOMAIN value.items : ~value.items[i].obj THEN 400
  ELSE IF /\ (attr.required \/ (~attr.required /\ Len(value.items) > 0))
          /\ Truthy(attr, "min")
          /\ Len(value.items) < attr.min THEN 400
  ELSE IF Truthy(attr, "max") /\ Len(value.items) > attr.max THEN 400
  ELSE 0

\* lines 745-757 (typeof null is 'object')
validateNonRepeatableInput(value, attr) ==
  IF value.kind \in {"other", "array"} THEN 400
  ELSE IF attr.required /\ value.kind = "null" THEN 400
  ELSE 0

\* mutation: the __component value is not compared with the allowed types
validateDynamiczoneInput_AnyComponent(value, attr) ==
  IF value.kind # "array" THEN 400
  ELSE IF \E i \in DOMAIN value.items :
            \/ ~value.items[i].obj
            \/ value.items[i].comp = "none" THEN 400
  ELSE IF /\ (attr.required \/ (~attr.required /\ Len(value.items) > 0))
          /\ Truthy(attr, "min")
          /\ Len(value.items) < attr.min THEN 400
  ELSE IF Truthy(attr, "max") /\ Len(value.items) > attr.max THEN 400
  ELSE 0

\* lines 759-800
validateDynamiczoneInput(value, attr) ==
  IF value.kind # "array" THEN 400
  ELSE IF \E i \in DOMAIN value.items :
            \/ ~value.items[i].obj
            \/ value.items[i].comp = "none"
            \/ value.items[i].comp \notin attr.components THEN 400
  ELSE IF /\ (attr.required \/ (~attr.required /\ Len(value.items) > 0))
          /\ Truthy(attr, "min")
          /\ Len(value.items) < attr.min THEN 400
  ELSE IF Truthy(attr, "max") /\ Len(value.items) > attr.max THEN 400
  ELSE 0

(* ------------------- relation persistence collaborator ---------------- *)
\* model.updateRelations({id, values}): every alias given replaces the links
\* of (id, alias); "null" and "list0" ([]) leave none, "set" links the target
UpdateRelations(w, id, rel) ==
  [w EXCEPT !.links =
     { l \in @ : ~(l.id = id /\ l.alias \in DOMAIN rel /\ rel[l.alias] # "absent") }
       \cup { [id |-> id, alias |-> a, target |-> Target] :
                a \in { b \in DOMAIN rel : rel[b] = "set" } }]

(* ---------------- queries of a component model (lines 79-178) --------- *)
\* A component model has no component keys and no associations, so its
\* create / update / delete touch its own table only.
\* st = [w, seq, err]: working database, counters, status of the first error

\* the keys of an item of the payload, and _.omit(value, ['__component'])
ItemKeys(value) ==
  {"text"} \cup (IF HasId(value) THEN {"id"} ELSE {})
           \cup (IF value.comp # "none" THEN {"__component"} ELSE {})

omit(value) == [value EXCEPT !.comp = "none"]

\* the declared attributes of every component model
ComponentAttributes == {"text"}

\* strapi.query(uid).create(value): selectAttributes keeps the declared
\* attributes among the keys given, here `text`
QueryCreate(st, uid, value) ==
  LET id == st.seq.comp[uid] + 1 IN
  [st EXCEPT !.w.comps = @ \cup {[uid |-> uid, id |-> id, text |-> value.text,
                                  keys |-> ItemKeys(value) \cap ComponentAttributes]},
             !.seq.comp[uid] = id]

\* strapi.query(uid).update({id}, value): 404 when the row is missing
QueryUpdate(st, uid, id, value) ==
  IF ~\E c \in st.w.comps : c.uid = uid /\ c.id = id
    THEN [st EXCEPT !.err = 404]
    ELSE [st EXCEPT !.w.comps =
            { IF c.uid = uid /\ c.id = id THEN [c EXCEPT !.text = value.text] ELSE c
              : c \in @ }]

\* strapi.query(uid).delete({id_in: ids}) / delete({id}): find, then deleteOne
\* of every match; ids are compared as the backend compares them with strings
QueryDeleteIn(w, uid, ids) ==
  [w EXCEPT !.comps = { c \in @ : ~(c.uid = uid /\ ToString(c.id) \in ids) }]

(* ------------------------ createComponents ---------------------------- *)
\* mutation: every join record is written with order 1
createComponentAndLink_OrderOne(st, entryId, uid, value, key, order) ==
  LET st1 == QueryCreate(st, uid, value) IN
  [st1 EXCEPT !.w.joins = @ \cup
     {[entity |-> entryId, component_type |-> CollectionName(uid),
       component_id |-> st1.seq.comp[uid], field |-> key, order |-> 1]}]

\* lines 220-236
createComponentAndLink(st, entryId, uid, value, key, order) ==
  LET st1 == QueryCreate(st, uid, value) IN
  [st1 EXCEPT !.w.joins = @ \cup
     {[entity |-> entryId, component_type |-> CollectionName(uid),
       component_id |-> st1.seq.comp[uid], field |-> key, order |-> order]}]

\* mutation: every item is created, the primary key it carries is ignored
updateOrCreateComponentAndLink_AlwaysCreate(st, entryId, uid, value, key, order) ==
  createComponentAndLink(st, entryId, uid, value, key, order)

\* lines 321-365
UpdateLinkOrderRow(j, order) == [j EXCEPT !.order = order]

updateOrCreateComponentAndLink(st, entryId, uid, value, key, order) ==
  IF HasId(value)
    THEN LET st1 == QueryUpdate(st, uid, value.id, value) IN
         IF st1.err # 0 THEN st1
         ELSE [st1 EXCEPT !.w.joins =
                 { IF /\ j.entity = entryId
                      /\ j.component_type = CollectionName(uid)
                      /\ j.component_id = value.id
                      /\ j.field = key
                     THEN UpdateLinkOrderRow(j, order) ELSE j : j \in @ }]
    ELSE createComponentAndLink(st, entryId, uid, value, key, order)

\* Promise.all over the items of a field: the tasks complete in the order ord
RunTasks(st, entryId, key, uidOf, items, ord, upd) ==
  IF ord = << >> \/ st.err # 0 THEN st
  ELSE LET idx == Head(ord)
           st1 == IF upd
                    THEN updateOrCreateComponentAndLink(st, entryId, uidOf[idx],
                                                        items[idx], key, idx)
                    ELSE createComponentAndLink(st, entryId, uidOf[idx],
                                                items[idx], key, idx)
       IN RunTasks(st1, entryId, key, uidOf, items, Tail(ord), upd)

Fail(st, status) == [st EXCEPT !.err = status]

\* the component model of every item: attr.component, or the item's __component
UidOf(attr, items) ==
  [i \in DOMAIN items |->
     IF attr.type = "dynamiczone" THEN items[i].comp ELSE attr.component]

\* lines 238-312: one turn of the loop over componentKeys
createComponentsField(st, entryId, values, key, ord) ==
  LET attr  == model.attributes[key]
      value == values.fields[key]
  IN
  IF attr.required /\ ~Has(values, key) THEN Fail(st, 400)
  ELSE IF ~Has(values, key) THEN st
  ELSE IF attr.type = "component" /\ attr.repeatable THEN
         IF validateRepeatableInput(value, attr) # 0 THEN Fail(st, 400)
         ELSE RunTasks(st, entryId, key, UidOf(attr, value.items), value.items, ord, FALSE)
  ELSE IF attr.type = "component" THEN
         IF validateNonRepeatableInput(value, attr) # 0 THEN Fail(st, 400)
         ELSE IF value.kind = "null" THEN st
         ELSE createComponentAndLink(st, entryId, attr.component, value.items[1], key, 1)
  ELSE   IF validateDynamiczoneInput(value, attr) # 0 THEN Fail(st, 400)
         ELSE RunTasks(st, entryId, key, UidOf(attr, value.items),
                       [i \in DOMAIN value.items |-> omit(value.items[i])], ord, FALSE)

(* ------------------------ updateComponents ---------------------------- *)
\* mutation: the component rows of the deleted join records are kept
deleteOldComponents_KeepRows(st, entryId, componentValue, key, uid) ==
  LET componentArr == componentValue.items
      idsToKeep == { ToString(componentArr[i].id) :
                       i \in { n \in DOMAIN componentArr : HasId(componentArr[n]) } }
      allIds == { ToString(j.component_id) :
                    j \in { r \in st.w.joins : r.entity = entryId /\ r.field = key } }
      idsToDelete == allIds \ idsToKeep
  IN
  IF \E id \in idsToKeep : id \notin allIds THEN Fail(st, 400)
  ELSE IF idsToDelete = {} THEN st
  ELSE [st EXCEPT !.w.joins =
          { j \in @ : ~(ToString(j.component_id) \in idsToDelete /\ j.field = key) }]

\* mutation: the ids to keep are not checked against the ids of the entity
deleteOldComponents_NoCheck(st, entryId, componentValue, key, uid) ==
  LET componentArr == componentValue.items
      idsToKeep == { ToString(componentArr[i].id) :
                       i \in { n \in DOMAIN componentArr : HasId(componentArr[n]) } }
      allIds == { ToString(j.component_id) :
                    j \in { r \in st.w.joins : r.entity = entryId /\ r.field = key } }
      idsToDelete == allIds \ idsToKeep
  IN
  IF idsToDelete = {} THEN st
  ELSE LET w1 == [st.w EXCEPT !.joins =
                    { j \in @ : ~(ToString(j.component_id) \in idsToDelete
                                   /\ j.field = key) }]
       IN [st EXCEPT !.w = QueryDeleteIn(w1, uid, idsToDelete)]

\* mutation: the ids to keep are checked after the old rows are destroyed
deleteOldComponents_DeleteFirst(st, entryId, componentValue, key, uid) ==
  LET componentArr == componentValue.items
      idsToKeep == { ToString(componentArr[i].id) :
                       i \in { n \in DOMAIN componentArr : HasId(componentArr[n]) } }
      allIds == { ToString(j.component_id) :
                    j \in { r \in st.w.joins : r.entity = entryId /\ r.field = key } }
      idsToDelete == allIds \ idsToKeep
      w1 == [st.w EXCEPT !.joins =
               { j \in @ : ~(ToString(j.component_id) \in idsToDelete
                              /\ j.field = key) }]
      st1 == IF idsToDelete = {} THEN st
             ELSE [st EXCEPT !.w = QueryDeleteIn(w1, uid, idsToDelete)]
  IN
  IF \E id \in idsToKeep : id \notin allIds THEN Fail(st1, 400) ELSE st1

\* lines 527-567.  The join records are destroyed by component_id and field
\* alone (line 560), the component rows by id (line 565).
deleteOldComponents(st, entryId, componentValue, key, uid) ==
  LET componentArr == componentValue.items   \* [null] holds no id either
      idsToKeep == { ToString(componentArr[i].id) :
                       i \in { n \in DOMAIN componentArr : HasId(componentArr[n]) } }
      allIds == { ToString(j.component_id) :
                    j \in { r \in st.w.joins : r.entity = entryId /\ r.field = key } }
      idsToDelete == allIds \ idsToKeep
  IN
  IF \E id \in idsToKeep : id \notin allIds THEN Fail(st, 400)
  ELSE IF idsToDelete = {} THEN st
  ELSE LET w1 == [st.w EXCEPT !.joins =
                    { j \in @ : ~(ToString(j.component_id) \in idsToDelete
                                   /\ j.field = key) }]
       IN [st EXCEPT !.w = QueryDeleteIn(w1, uid, idsToDelete)]

\* mutation: the ids are matched without the component type
deleteDynamicZoneOldComponents_ByIdOnly(st, entryId, value, key) ==
  LET idsToKeep == { ToString(value.items[i].id) :
                       i \in { n \in DOMAIN value.items : HasId(value.items[n]) } }
      mine == { r \in st.w.joins : r.entity = entryId /\ r.field = key }
      allIds == { ToString(j.component_id) : j \in mine }
      gone == { j \in mine : ToString(j.component_id) \notin idsToKeep }
  IN
  IF \E id \in idsToKeep : id \notin allIds THEN Fail(st, 400)
  ELSE IF gone = {} THEN st
  ELSE [st EXCEPT
          !.w.joins = @ \ gone,
          !.w.comps = { c \in @ : ~\E j \in gone : CollectionName(c.uid) = j.component_type
                                                   /\ c.id = j.component_id }]

\* lines 454-525: matching on (id, component) pairs
deleteDynamicZoneOldComponents(st, entryId, value, key) ==
  LET idsToKeep == { [id |-> ToString(value.items[i].id), component |-> value.items[i].comp] :
                       i \in { n \in DOMAIN value.items : HasId(value.items[n]) } }
      allIds == { [id |-> ToString(j.component_id),
                   component |-> ComponentOfType(j.component_type)] :
                    j \in { r \in st.w.joins : r.entity = entryId /\ r.field = key } }
      idsToDelete == allIds \ idsToKeep
  IN
  IF \E el \in idsToKeep : el \notin allIds THEN Fail(st, 400)
  ELSE IF idsToDelete = {} THEN st
  ELSE [st EXCEPT
          !.w.joins = { j \in @ :
                          ~(/\ j.field = key
                            /\ \E d \in idsToDelete :
                                 /\ ToString(j.component_id) = d.id
                                 /\ j.component_type = CollectionName(d.component)) },
          !.w.comps = { c \in @ :
                          ~\E d \in idsToDelete :
                              c.uid = d.component /\ ToString(c.id) = d.id }]

\* mutation: a field absent from the payload is emptied
updateComponentsField_ClearAbsent(st, entryId, values, key, ord) ==
  LET attr  == model.attributes[key]
      value == values.fields[key]
  IN
  IF ~Has(values, key)
    THEN [st EXCEPT !.w.joins = { j \in @ : ~(j.entity = entryId /\ j.field = key) },
                    !.w.comps = { c \in @ :
                                    ~\E j \in st.w.joins :
                                        /\ j.entity = entryId /\ j.field = key
                                        /\ j.component_id = c.id
                                        /\ j.component_type = CollectionName(c.uid) }]
  ELSE IF attr.type = "component" /\ attr.repeatable THEN
         IF validateRepeatableInput(value, attr) # 0 THEN Fail(st, 400)
         ELSE LET st1 == deleteOldComponents(st, entryId, value, key, attr.component) IN
              IF st1.err # 0 THEN st1
              ELSE RunTasks(st1, entryId, key, UidOf(attr, value.items), value.items, ord, TRUE)
  ELSE IF attr.type = "component" THEN
         IF validateNonRepeatableInput(value, attr) # 0 THEN Fail(st, 400)
         ELSE LET st1 == deleteOldComponents(st, entryId, value, key, attr.component) IN
              IF st1.err # 0 \/ value.kind = "null" THEN st1
              ELSE updateOrCreateComponentAndLink(st1, entryId, attr.component,
                                                  value.items[1], key, 1)
  ELSE   IF validateDynamiczoneInput(value, attr) # 0 THEN Fail(st, 400)
         ELSE LET st1 == deleteDynamicZoneOldComponents(st, entryId, value, key) IN
              IF st1.err # 0 THEN st1
              ELSE RunTasks(st1, entryId, key, UidOf(attr, value.items),
                            [i \in DOMAIN value.items |-> omit(value.items[i])], ord, TRUE)

\* mutation: the old component of a non-repeatable field is not deleted
updateComponentsField_KeepOld(st, entryId, values, key, ord) ==
  LET attr  == model.attributes[key]
      value == values.fields[key]
  IN
  IF ~Has(values, key) THEN st
  ELSE IF attr.type = "component" /\ attr.repeatable THEN
         IF validateRepeatableInput(value, attr) # 0 THEN Fail(st, 400)
         ELSE LET st1 == deleteOldComponents(st, entryId, value, key, attr.component) IN
              IF st1.err # 0 THEN st1
              ELSE RunTasks(st1, entryId, key, UidOf(attr, value.items), value.items, ord, TRUE)
  ELSE IF attr.type = "component" THEN
         IF validateNonRepeatableInput(value, attr) # 0 THEN Fail(st, 400)
         ELSE IF value.kind = "null" THEN st
         ELSE updateOrCreateComponentAndLink(st, entryId, attr.component,
                                             value.items[1], key, 1)
  ELSE   IF validateDynamiczoneInput(value, attr) # 0 THEN Fail(st, 400)
         ELSE LET st1 == deleteDynamicZoneOldComponents(st, entryId, value, key) IN
              IF st1.err # 0 THEN st1
              ELSE RunTasks(st1, entryId, key, UidOf(attr, value.items),
                            [i \in DOMAIN value.items |-> omit(value.items[i])], ord, TRUE)

\* lines 367-450: one turn of the loop over componentKeys
updateComponentsField(st, entryId, values, key, ord) ==
  LET attr  == model.attributes[key]
      value == values.fields[key]
  IN
  IF ~Has(values, key) THEN st
  ELSE IF attr.type = "component" /\ attr.repeatable THEN
         IF validateRepeatableInput(value, attr) # 0 THEN Fail(st, 400)
         ELSE LET st1 == deleteOldComponents(st, entryId, value, key, attr.component) IN
              IF st1.err # 0 THEN st1
              ELSE RunTasks(st1, entryId, key, UidOf(attr, value.items), value.items, ord, TRUE)
  ELSE IF attr.type = "component" THEN
         IF validateNonRepeatableInput(value, attr) # 0 THEN Fail(st, 400)
         ELSE LET st1 == deleteOldComponents(st, entryId, value, key, attr.component) IN
              IF st1.err # 0 \/ value.kind = "null" THEN st1
              ELSE updateOrCreateComponentAndLink(st1, entryId, attr.component,
                                                  value.items[1], key, 1)
  ELSE   IF validateDynamiczoneInput(value, attr) # 0 THEN Fail(st, 400)
         ELSE LET st1 == deleteDynamicZoneOldComponents(st, entryId, value, key) IN
              IF st1.err # 0 THEN st1
              ELSE RunTasks(st1, entryId, key, UidOf(attr, value.items),
                            [i \in DOMAIN value.items |-> omit(value.items[i])], ord, TRUE)

(* ------------------------ deleteComponents ---------------------------- *)
\* mutation: the join records are deleted, the component rows are kept
deleteComponentsField_KeepRows(w, entryId, key) ==
  [w EXCEPT !.joins = { j \in @ : ~(j.entity = entryId /\ j.field = key) }]

\* lines 575-645: one turn of the loop over componentKeys
deleteComponentsField(w, entryId, key) ==
  LET attr == model.attributes[key]
      mine == { j \in w.joins : j.entity = entryId /\ j.field = key }
      w1 == IF attr.type = "component"
              THEN [w EXCEPT !.comps =
                      { c \in @ : ~(c.uid = attr.component
                                    /\ c.id \in { j.component_id : j \in mine }) }]
              ELSE [w EXCEPT !.comps =
                      { c \in @ :
                          ~(/\ c.uid \in attr.components
                            /\ \E j \in mine : /\ j.component_type = CollectionName(c.uid)
                                               /\ j.component_id = c.id) }]
  IN [w1 EXCEPT !.joins = { j \in @ : ~(j.entity = entryId /\ j.field = key) }]

deleteComponents(w, entryId, keys) ==
  IF keys = << >> THEN w
  ELSE deleteComponents(deleteComponentsField(w, entryId, Head(keys)), entryId, Tail(keys))

(* ------------------------------ inputs -------------------------------- *)
ItemsOf(comps) ==
  { NewItem(c) : c \in comps } \cup { KeepItem(id, c) : id \in 1..MaxComp, c \in comps }

FieldValues(attr) ==
  IF attr.type = "component" /\ attr.repeatable
    THEN {Absent, Other, Arr(<< NonObject >>)}
           \cup { Arr(s) : s \in SeqsUpTo(ItemsOf({"none"}), MaxItems) }
  ELSE IF attr.type = "component"
    THEN {Absent, Null, Other} \cup { Obj(it) : it \in ItemsOf({"none"}) }
  ELSE {Absent, Other, Arr(<< NonObject >>),
        Arr(<< NewItem("none") >>), Arr(<< NewItem("hero") >>),
        Arr(<< NewItem("section"), NewItem("none") >>),
        Arr(<< NewItem("hero"), NewItem("section") >>),
        Arr(<< KeepItem(1, "section"), NewItem("none") >>)}
           \cup { Arr(s) : s \in SeqsUpTo(ItemsOf(attr.components), MaxItems) }

RelPayloads == { [a \in assocKeys |-> v] : v \in {"absent", "set"} }

Payloads ==
  { [title |-> t, extra |-> {}, rel |-> r, fields |-> f] :
      t \in (IF "title" \in model.scalars THEN Titles ELSE {}) \cup {"-"},
      r \in RelPayloads,
      f \in { g \in [componentKeySet -> UNION { FieldValues(model.attributes[k]) :
                                                  k \in componentKeySet }] :
                \A k \in componentKeySet : g[k] \in FieldValues(model.attributes[k]) } }

\* payloads with any title and any extra keys
RichPayloads ==
  { [p EXCEPT !.title = t, !.extra = e] :
      p \in Payloads, t \in RichTitles \cup {"-"}, e \in SUBSET ExtraKeys }

NoValues == [title |-> "-", extra |-> {}, rel |-> [a \in assocKeys |-> "absent"],
             fields |-> [k \in componentKeySet |-> Absent]]

\* component rows of table uid the payload may insert
Needed(values, uid, upd) ==
  Cardinality({ <<k, i>> \in componentKeySet \X (1..(MaxItems + 1)) :
                  /\ i \in DOMAIN values.fields[k].items
                  /\ upd => ~HasId(values.fields[k].items[i])
                  /\ uid = (IF model.attributes[k].type = "dynamiczone"
                              THEN values.fields[k].items[i].comp
                              ELSE model.attributes[k].component) })

HasRoom(values, upd) ==
  \A uid \in Components : seq.comp[uid] + Needed(values, uid, upd) <= MaxComp

(* ------------------------- transaction scope -------------------------- *)
\* mutation: no transaction is ever opened
wrapTransaction_NeverOpens(transacting) ==
  IF transacting THEN "outer" ELSE "none"

\* mutation: the handle passed in is ignored, a transaction is opened anyway
wrapTransaction_IgnoresHandle(transacting) ==
  IF client = "mssql" THEN (IF transacting THEN "outer" ELSE "none")
  ELSE "own"

\* lines 38-45: "own" opens db.transaction, "outer" runs under the handle
\* passed in, "none" runs without any transaction
wrapTransaction(transacting) ==
  IF client = "mssql" THEN (IF transacting THEN "outer" ELSE "none")
  ELSE IF transacting THEN "outer"
  ELSE "own"

\* what a query run with the caller's handle (or with none) reads
Visible == IF otx.open THEN otx.w ELSE db

\* what the writes of the call in flight have produced so far
Cur == IF call.mode = "own" THEN call.w
       ELSE IF call.mode = "outer" THEN otx.w
       ELSE db

IdleCall ==
  [op |-> "none", pc |-> "idle", mode |-> "none", status |-> 0, id |-> 0,
   pk |-> FALSE, values |-> NoValues, k |-> 0, w |-> EmptyDB, pre |-> EmptyDB,
   queue |-> << >>, result |-> "none"]

Quiet == call.pc = "idle"

\* the call goes on with working database w
Continue(c, w) ==
  /\ call' = (IF c.mode = "own" THEN [c EXCEPT !.w = w] ELSE c)
  /\ otx'  = (IF c.mode = "outer" THEN [otx EXCEPT !.w = w] ELSE otx)
  /\ db'   = (IF c.mode = "none" THEN w ELSE db)

\* the function given to wrapTransaction resolved: commit (line 44)
Resolve(c, w) ==
  /\ call' = [c EXCEPT !.w = EmptyDB]
  /\ otx'  = (IF c.mode = "outer" THEN [otx EXCEPT !.w = w] ELSE otx)
  /\ db'   = (IF c.mode = "outer" THEN db ELSE w)

\* mutation: the transaction the call opened is committed on rejection too
Reject_NoRollback(c, w) ==
  /\ call' = [c EXCEPT !.w = EmptyDB]
  /\ otx'  = (IF c.mode = "outer" THEN [otx EXCEPT !.w = w] ELSE otx)
  /\ db'   = (IF c.mode = "outer" THEN db ELSE w)
  /\ dirty' = (dirty \/ (c.mode # "own" /\ w # c.pre))

\* it rejected: rollback of the transaction the call opened, if it opened one;
\* w holds the writes made before the error
Reject(c, w) ==
  /\ call' = [c EXCEPT !.w = EmptyDB]
  /\ otx'  = (IF c.mode = "outer" THEN [otx EXCEPT !.w = w] ELSE otx)
  /\ db'   = (IF c.mode = "none" THEN w ELSE db)
  /\ dirty' = (dirty \/ (c.mode # "own" /\ w # c.pre))

\* mutation: the missing entry goes unnoticed
NotFound_Never(entries) == FALSE

\* lines 97, 131: `if (!entry)` after model.where(params).fetch
NotFound(entries) == entries = {}

\* mutation: deleteMany throws the not-found error of deleteOne
EmptyResult_Throw(c, pk) ==
  [c EXCEPT !.pc = "done", !.status = 404]

\* lines 170-176: what deleteMany returns when find matched nothing
EmptyResult(c, pk) ==
  [c EXCEPT !.pc = "done", !.status = 200, !.result = IF pk THEN "null" ELSE "list"]

(* -------------------------------- find -------------------------------- *)
\* lines 58-68, for a filter on the primary key
find(w, id) == { r \in w.rows : r.id = id }

\* lines 50-53: `entries[0] || null`; the empty set stands for null
findOne(w, id) ==
  LET entries == find(w, id) IN
  IF entries = {} THEN {} ELSE { CHOOSE e \in entries : TRUE }

FindOne(id) ==
  /\ Quiet
  /\ call' = [IdleCall EXCEPT !.op = "findOne", !.pc = "done", !.id = id,
                              !.pre = Visible, !.status = 200,
                              !.result = IF findOne(Visible, id) = {}
                                           THEN "null" ELSE "entity"]
  /\ UNCHANGED <<race, client, model, db, seq, otx, dirty>>

(* ------------------------------- search ------------------------------- *)
Queries == {"42", "0", "true", "false", "a", "zz"}

\* _.toNumber of a query string
toNumber(q) ==
  CASE q = "42" -> [nan |-> FALSE, n |-> 42]
    [] q = "0"  -> [nan |-> FALSE, n |-> 0]
    [] OTHER    -> [nan |-> TRUE,  n |-> 0]

\* the full-text predicate of the backend over the columns given: a column
\* holds the word asked for
FullText(r, columns, q) == \E a \in columns : r[a] = q

\* lines 666-713: the predicates added to the query builder; error: the raw
\* clause is built over no column at all
buildSearchQuery(q) ==
  LET searchable == { a \in DOMAIN model.types : a # "id" /\ a \notin assocKeys }
      searchText == { a \in searchable : model.types[a] \in {"string", "text"} }
      searchInt  == { a \in searchable :
                        model.types[a] \in {"integer", "decimal", "float"} }
      searchBool == { a \in searchable : model.types[a] \in {"boolean"} }
  IN [num   |-> IF ~toNumber(q).nan THEN searchInt ELSE {},
      bool  |-> IF q = "true" \/ q = "false" THEN searchBool ELSE {},
      text  |-> IF model.client \in {"mysql", "pg"} THEN searchText ELSE {},
      raw   |-> model.client \in {"mysql", "pg"},
      error |-> model.client \in {"mysql", "pg"} /\ searchText = {}]

\* the rows the query selects: its predicates are joined by OR, and a query
\* without any predicate selects every row
Selected(w, q) ==
  LET b == buildSearchQuery(q) IN
  IF b.num = {} /\ b.bool = {} /\ ~b.raw THEN w.rows
  ELSE { r \in w.rows :
           \/ \E a \in b.num : r[a] = toNumber(q).n
           \/ \E a \in b.bool : r[a] = (q = "true")
           \/ b.raw /\ FullText(r, b.text, q) }

\* the ids of S in ascending order
IdSeq(S) ==
  CHOOSE s \in [1..Cardinality(S) -> S] :
    \A i, j \in 1..Cardinality(S) : i < j => s[i] < s[j]

\* lines 180-204, without sort, start and limit: the ids returned are in
\* call.queue
Search(q) ==
  /\ Quiet
  /\ LET b == buildSearchQuery(q) IN
     call' = [IdleCall EXCEPT
                !.op = "search", !.pc = "done", !.pre = Visible,
                !.values = [NoValues EXCEPT !.title = q],
                !.status = IF b.error THEN 500 ELSE 200,
                !.result = "list",
                !.queue = IF b.error THEN << >>
                          ELSE IdSeq({ r.id : r \in Selected(Visible, q) })]
  /\ UNCHANGED <<race, client, model, db, seq, otx, dirty>>

(* ------------------------------- create ------------------------------- *)
\* lines 79-92, up to the insert of the entity row (line 85)
CreateStart(values) ==
  /\ Quiet
  /\ seq.entity < MaxEntity
  /\ HasRoom(values, FALSE)
  /\ LET id   == seq.entity + 1
         data == selectAttributes(values)
         row  == [id |-> id, title |-> IF "title" \in data THEN values.title ELSE "-",
                  extra |-> data \ {"title"}]
         w0   == [Visible EXCEPT !.rows = @ \cup {row}]
         c    == [IdleCall EXCEPT !.op = "create", !.pc = "fields", !.k = 1,
                                  !.mode = wrapTransaction(otx.open),
                                  !.id = id, !.values = values, !.pre = Visible]
     IN /\ seq' = [seq EXCEPT !.entity = id]
        /\ Continue(c, w0)
  /\ UNCHANGED <<race, client, model, dirty>>

(* ------------------------------- update ------------------------------- *)
\* lines 94-116: fetch, 404, patch of the entity row
UpdateStart(id, values) ==
  /\ Quiet
  /\ HasRoom(values, TRUE)
  /\ LET c == [IdleCall EXCEPT !.op = "update", !.id = id, !.values = values,
                               !.pre = Visible]
         data == selectAttributes(values)
     IN IF NotFound({ r \in Visible.rows : r.id = id })
          THEN /\ call' = [c EXCEPT !.pc = "done", !.status = 404]
               /\ UNCHANGED <<db, otx, dirty>>
          ELSE /\ Continue([c EXCEPT !.pc = "fields", !.k = 1,
                                     !.mode = wrapTransaction(otx.open)],
                           IF data # {}
                             THEN [Visible EXCEPT !.rows =
                                     { IF r.id = id
                                         THEN [r EXCEPT
                                                 !.title = IF "title" \in data
                                                             THEN values.title ELSE @,
                                                 !.extra = @ \cup (data \ {"title"})]
                                         ELSE r : r \in @ }]
                             ELSE Visible)
               /\ UNCHANGED dirty
  /\ UNCHANGED <<race, client, model, seq>>

(* ---------------- createComponents / updateComponents ----------------- *)
\* one turn of the loop over componentKeys (lines 238-312, 367-450)
FieldStep(ord) ==
  /\ call.pc = "fields"
  /\ LET key == componentKeys[call.k]
         st  == [w |-> Cur, seq |-> seq, err |-> 0]
         st1 == IF call.op = "create"
                  THEN createComponentsField(st, call.id, call.values, key, ord)
                  ELSE updateComponentsField(st, call.id, call.values, key, ord)
     IN /\ ord \in Perms(Len(call.values.fields[key].items))
        /\ seq' = st1.seq
        /\ IF st1.err # 0
             THEN Reject([call EXCEPT !.pc = "done", !.status = st1.err], st1.w)
             ELSE /\ Continue([call EXCEPT
                                 !.pc = IF call.k = Len(componentKeys)
                                          THEN "finish" ELSE "fields",
                                 !.k = call.k + 1], st1.w)
                  /\ UNCHANGED dirty
  /\ UNCHANGED <<race, client, model>>

\* lines 88, 118-122: relations, then the transaction commits
Finish ==
  /\ call.pc = "finish"
  /\ LET w1 == IF call.op = "create" \/ pickRelations(call.values) # {}
                 THEN UpdateRelations(Cur, call.id, call.values.rel)
                 ELSE Cur
     IN Resolve([call EXCEPT !.pc = "done", !.status = 200, !.result = "entity"], w1)
  /\ UNCHANGED <<race, client, model, seq, dirty>>

(* ------------------------------- delete ------------------------------- *)
\* lines 167-178.  The deleteOne calls of a filter that is not a primary
\* key are taken one after the other, in any order.
DeleteStart(pk, id, title, ord) ==
  /\ Quiet
  /\ LET c == [IdleCall EXCEPT !.op = "delete", !.pk = pk, !.pre = Visible,
                               !.id = IF pk THEN id ELSE 0,
                               !.values = [NoValues EXCEPT !.title = IF pk THEN "-" ELSE title]]
         entries == IF pk THEN { r.id : r \in { x \in Visible.rows : x.id = id } }
                    ELSE { r.id : r \in { x \in Visible.rows : x.title = title } }
     IN /\ pk \/ (Len(ord) = Cardinality(entries) /\ Range(ord) = entries)
        /\ call' = IF entries = {}
                     THEN EmptyResult(c, pk)
                     ELSE [c EXCEPT !.pc = "dbegin", !.queue = ord,
                                    !.result = IF pk THEN "entity" ELSE "list"]
  /\ UNCHANGED <<race, client, model, db, seq, otx, dirty>>

\* lines 137-154: null for the to-one natures, [] for the to-many ones
UnlinkValues ==
  [a \in assocKeys |->
     LET nature == model.associations[CHOOSE i \in DOMAIN model.associations :
                                        model.associations[i].alias = a].nature
     IN IF nature \in {"oneWay", "oneToOne", "manyToOne", "oneToManyMorph"} THEN "null"
        ELSE IF nature \in {"manyWay", "oneToMany", "manyToMany", "manyToManyMorph"}
          THEN "list0"
        ELSE "absent"]

\* the deleteOne of the queue ends; the next one starts
NextDelete(c, status) ==
  IF Len(c.queue) = 1
    THEN [c EXCEPT !.pc = "done", !.queue = << >>, !.w = EmptyDB,
                   !.status = IF c.status = 0 THEN status ELSE c.status]
    ELSE [c EXCEPT !.pc = "dbegin", !.queue = Tail(c.queue), !.w = EmptyDB,
                   !.mode = "none",
                   !.status = IF status = 200 THEN c.status ELSE status]

\* mutation: updateRelations runs inside the transaction of the delete
DeleteOneBegin_UnlinkInside ==
  /\ call.pc = "dbegin"
  /\ LET id == Head(call.queue) IN
     IF NotFound({ r \in Visible.rows : r.id = id })
       THEN /\ call' = NextDelete(call, 404)
            /\ UNCHANGED <<db, otx, dirty>>
       ELSE LET w0   == UpdateRelations(Visible, id, UnlinkValues)
                mode == wrapTransaction(otx.open)
            IN /\ call' = [call EXCEPT !.pc = "dcomp", !.mode = mode,
                                       !.w = IF mode = "own" THEN w0 ELSE EmptyDB]
               /\ otx' = (IF otx.open THEN [otx EXCEPT !.w = w0] ELSE otx)
               /\ db'  = (IF otx.open \/ mode = "own" THEN db ELSE w0)
               /\ UNCHANGED dirty
  /\ UNCHANGED <<race, client, model, seq>>

\* lines 128-156: fetch, 404, updateRelations under the caller's handle,
\* then wrapTransaction
DeleteOneBegin ==
  /\ call.pc = "dbegin"
  /\ LET id == Head(call.queue) IN
     IF NotFound({ r \in Visible.rows : r.id = id })
       THEN /\ call' = NextDelete(call, 404)
            /\ UNCHANGED <<db, otx, dirty>>
       ELSE LET w0   == UpdateRelations(Visible, id, UnlinkValues)
                mode == wrapTransaction(otx.open)
            IN /\ call' = [call EXCEPT !.pc = "dcomp", !.mode = mode,
                                       !.w = IF mode = "own" THEN w0 ELSE EmptyDB]
               /\ otx' = (IF otx.open THEN [otx EXCEPT !.w = w0] ELSE otx)
               /\ db'  = (IF otx.open THEN db ELSE w0)
               /\ UNCHANGED dirty
  /\ UNCHANGED <<race, client, model, seq>>

\* line 159
DeleteComponents ==
  /\ call.pc = "dcomp"
  /\ Continue([call EXCEPT !.pc = "drow"],
              deleteComponents(Cur, Head(call.queue), componentKeys))
  /\ UNCHANGED <<race, client, model, seq, dirty>>

\* lines 160-161, and the commit
DeleteRow ==
  /\ call.pc = "drow"
  /\ LET w1 == [Cur EXCEPT !.rows = { r \in @ : r.id # Head(call.queue) }]
         c  == NextDelete(call, 200)
     IN /\ call' = c
        /\ otx'  = (IF call.mode = "outer" THEN [otx EXCEPT !.w = w1] ELSE otx)
        /\ db'   = (IF call.mode = "outer" THEN db ELSE w1)
  /\ UNCHANGED <<race, client, model, seq, dirty>>

\* the result has been handed to the caller
Return ==
  /\ call.pc = "done"
  /\ call' = IdleCall
  /\ UNCHANGED <<race, client, model, db, seq, otx, dirty>>

(* --------------------------- backend failure -------------------------- *)
\* a query of the call in flight is rejected by the backend
BackendFailure ==
  /\ call.pc \in {"fields", "finish", "dcomp", "drow"}
  /\ IF call.op = "delete"
       THEN /\ call' = NextDelete(call, 500)
            /\ UNCHANGED <<db, otx>>
            /\ dirty' = (dirty \/ call.mode # "own")
       ELSE Reject([call EXCEPT !.pc = "done", !.status = 500], Cur)
  /\ UNCHANGED <<race, client, model, seq>>

(* ----------------------- the caller's transaction --------------------- *)
BeginOuter ==
  /\ Quiet /\ ~otx.open
  /\ otx' = [open |-> TRUE, w |-> db]
  /\ UNCHANGED <<race, client, model, db, seq, call, dirty>>

CommitOuter ==
  /\ Quiet /\ otx.open
  /\ db' = otx.w
  /\ otx' = [open |-> FALSE, w |-> EmptyDB]
  /\ UNCHANGED <<race, client, model, seq, call, dirty>>

RollbackOuter ==
  /\ Quiet /\ otx.open
  /\ otx' = [open |-> FALSE, w |-> EmptyDB]
  /\ UNCHANGED <<race, client, model, db, seq, call, dirty>>

(* ----------------------- a validator on its own ---------------------- *)
\* the arrays of 0..MaxLen well-formed items, and two malformed values
CountValues(attr) ==
  {Other, Arr(<< NonObject >>)}
    \cup { Arr([i \in 1..L |-> NewItem(IF attr.type = "dynamiczone"
                                        THEN "section" ELSE "none")]) : L \in 0..MaxLen }

\* lines 258, 295, 383, 427: the validator of the field is called with the
\* value given for it; status 0: it returned, 400: it threw
ValidateInput(value) ==
  /\ Quiet
  /\ LET key  == componentKeys[1]
         attr == model.attributes[key]
     IN call' = [IdleCall EXCEPT
                   !.op = "validate", !.pc = "done",
                   !.values = [NoValues EXCEPT !.fields = [k \in componentKeySet |-> value]],
                   !.status = IF attr.type = "dynamiczone"
                                THEN validateDynamiczoneInput(value, attr)
                                ELSE validateRepeatableInput(value, attr)]
  /\ UNCHANGED <<race, client, model, db, seq, otx, dirty>>

(* ------------------- two updates of the same entity ------------------- *)
\* Two calls of update for the same entity and the same repeatable component
\* field, none awaited before the other is made, without a transaction
\* (client mssql): every awaited query of a call is a step, the steps of the
\* two calls are taken in any order.
\* race.init: the database and the counters before the two calls
\* race.p[n] = [pc, values, del, todo, made, status]
\*   del:  idsToDelete of deleteOldComponents
\*   todo: the queries the tasks of Promise.all still have to make,
\*         <<idx, "component">> then <<idx, "link">>
\*   made: the id of the component created for item idx
IdleUpdate ==
  [pc |-> "idle", values |-> Absent, del |-> {}, todo |-> {},
   made |-> [i \in 1..MaxItems |-> 0], status |-> 0]

NoRace == [init |-> [w |-> EmptyDB, err |-> 0,
                     seq |-> [entity |-> 0, comp |-> [u \in Components |-> 0]]],
           mixed |-> FALSE, p |-> << >>]

\* the entity the two calls update, the field and its component model
RaceEntity == CHOOSE e \in 1..MaxEntity : \E r \in race.init.w.rows : r.id = e
RaceKey    == componentKeys[Len(componentKeys)]
RaceUid    == model.attributes[RaceKey].component

Working(u) == u.pc \notin {"idle", "done"}

\* call n moves to u; mixed: a call made a query while the other was at work
Advance(n, u) ==
  race' = [race EXCEPT !.p[n] = u,
                       !.mixed = @ \/ \E o \in DOMAIN race.p : o # n /\ Working(race.p[o])]

\* lines 95-116, 382-383, 527-554: the entry is fetched (the payload holds no
\* attribute of its own to save), the value is validated, the join records
\* of (entity, field) are fetched and the ids given are compared with them
UpdateFetch(n, value) ==
  /\ race.p # << >> /\ race.p[n].pc = "idle"
  /\ LET attr == model.attributes[RaceKey]
         componentArr == value.items
         idsToKeep == { ToString(componentArr[i].id) :
                          i \in { m \in DOMAIN componentArr : HasId(componentArr[m]) } }
         allIds == { ToString(j.component_id) :
                       j \in { r \in db.joins : r.entity = RaceEntity /\ r.field = RaceKey } }
         u == [IdleUpdate EXCEPT !.values = value]
     IN IF validateRepeatableInput(value, attr) # 0
             \/ \E id \in idsToKeep : id \notin allIds
          THEN Advance(n, [u EXCEPT !.pc = "done", !.status = 400])
          ELSE Advance(n, [u EXCEPT
                 !.pc = IF allIds \ idsToKeep = {} THEN "tasks" ELSE "destroy",
                 !.del = allIds \ idsToKeep,
                 !.todo = { <<i, "component">> : i \in DOMAIN componentArr }])
  /\ UNCHANGED <<client, model, db, seq, otx, call, dirty>>

\* lines 558-561: the join records of idsToDelete are destroyed
UpdateDestroy(n) ==
  /\ race.p # << >> /\ race.p[n].pc = "destroy"
  /\ db' = [db EXCEPT !.joins =
              { j \in @ : ~(ToString(j.component_id) \in race.p[n].del
                             /\ j.field = RaceKey) }]
  /\ Advance(n, [race.p[n] EXCEPT !.pc = "delete"])
  /\ UNCHANGED <<client, model, seq, otx, call, dirty>>

\* mutation: the component rows of idsToDelete are left in place
UpdateDelete_KeepRows(n) ==
  /\ race.p # << >> /\ race.p[n].pc = "delete"
  /\ db' = db
  /\ Advance(n, [race.p[n] EXCEPT !.pc = "tasks"])
  /\ UNCHANGED <<client, model, seq, otx, call, dirty>>

\* lines 563-565: the component rows of idsToDelete are deleted
UpdateDelete(n) ==
  /\ race.p # << >> /\ race.p[n].pc = "delete"
  /\ db' = QueryDeleteIn(db, RaceUid, race.p[n].del)
  /\ Advance(n, [race.p[n] EXCEPT !.pc = "tasks"])
  /\ UNCHANGED <<client, model, seq, otx, call, dirty>>

\* lines 324-332, 350-352: the component of item idx is updated (404 when
\* its row is gone) or created
UpdateComponent(n, idx) ==
  /\ race.p # << >> /\ race.p[n].pc = "tasks" /\ <<idx, "component">> \in race.p[n].todo
  /\ LET u     == race.p[n]
         value == u.values.items[idx]
         st    == [w |-> db, seq |-> seq, err |-> 0]
         st1   == IF HasId(value) THEN QueryUpdate(st, RaceUid, value.id, value)
                  ELSE QueryCreate(st, RaceUid, value)
     IN /\ db' = st1.w
        /\ seq' = st1.seq
        /\ IF st1.err # 0
             THEN Advance(n, [u EXCEPT !.todo = @ \ {<<idx, "component">>},
                                       !.status = st1.err])
             ELSE Advance(n, [u EXCEPT
                    !.todo = (@ \ {<<idx, "component">>}) \cup {<<idx, "link">>},
                    !.made[idx] = IF HasId(value) THEN 0 ELSE st1.seq.comp[RaceUid]])
  /\ UNCHANGED <<client, model, otx, call, dirty>>

\* lines 333-346, 353-363: the order of the join record of item idx is
\* patched (no row is required), or its join record is inserted
UpdateLink(n, idx) ==
  /\ race.p # << >> /\ race.p[n].pc = "tasks" /\ <<idx, "link">> \in race.p[n].todo
  /\ LET u     == race.p[n]
         value == u.values.items[idx]
     IN /\ db' = IF HasId(value)
                   THEN [db EXCEPT !.joins =
                           { IF /\ j.entity = RaceEntity
                                /\ j.component_type = CollectionName(RaceUid)
                                /\ j.component_id = value.id
                                /\ j.field = RaceKey
                               THEN UpdateLinkOrderRow(j, idx) ELSE j : j \in @ }]
                   ELSE [db EXCEPT !.joins = @ \cup
                           {[entity |-> RaceEntity,
                             component_type |-> CollectionName(RaceUid),
                             component_id |-> u.made[idx], field |-> RaceKey,
                             order |-> idx]}]
        /\ Advance(n, [u EXCEPT !.todo = @ \ {<<idx, "link">>}])
  /\ UNCHANGED <<client, model, seq, otx, call, dirty>>

\* lines 392-401, 122: every task has settled, the call returns
UpdateSettle(n) ==
  /\ race.p # << >> /\ race.p[n].pc = "tasks" /\ race.p[n].todo = {}
  /\ Advance(n, [race.p[n] EXCEPT !.pc = "done",
                                  !.status = IF @ = 0 THEN 200 ELSE @])
  /\ UNCHANGED <<client, model, db, seq, otx, call, dirty>>

\* the values given for the field by the two calls
RaceValues ==
  { Arr(s) : s \in SeqsUpTo({ NewItem("none") } \cup
                              { KeepItem(id, "none") : id \in 1..MaxComp }, MaxItems) }

\* an entity with n components in the field, as create leaves it
Created(n) ==
  LET row == [id |-> 1, title |-> "-", extra |-> {}]
      st  == [w |-> [EmptyDB EXCEPT !.rows = {row}],
              seq |-> [entity |-> row.id, comp |-> [u \in Components |-> 0]],
              err |-> 0]
      values == [NoValues EXCEPT
                   !.fields[RaceKey] = Arr([i \in 1..n |-> NewItem("none")])]
  IN createComponentsField(st, row.id, values, RaceKey, [i \in 1..n |-> i])

InitRace ==
  /\ client = "mssql"
  /\ model = ArticleModel
  /\ \E n \in 1..model.attributes[RaceKey].max :
       /\ db = Created(n).w
       /\ seq = Created(n).seq
       /\ race = [init |-> Created(n),
                  mixed |-> FALSE, p |-> << IdleUpdate, IdleUpdate >>]
  /\ otx = [open |-> FALSE, w |-> EmptyDB]
  /\ call = IdleCall
  /\ dirty = FALSE

NextRace ==
  \E n \in 1..2 :
    \/ \E value \in RaceValues : UpdateFetch(n, value)
    \/ UpdateDestroy(n)
    \/ UpdateDelete(n)
    \/ \E idx \in 1..MaxItems : UpdateComponent(n, idx)
    \/ \E idx \in 1..MaxItems : UpdateLink(n, idx)
    \/ UpdateSettle(n)

SpecRace == InitRace /\ [][NextRace]_vars

(* --------------------------- specification ---------------------------- *)
InitWith(clients, models) ==
  /\ client \in clients
  /\ model \in models
  /\ db = EmptyDB
  /\ seq = [entity |-> 0, comp |-> [u \in Components |-> 0]]
  /\ otx = [open |-> FALSE, w |-> EmptyDB]
  /\ call = IdleCall
  /\ dirty = FALSE
  /\ race = NoRace

Init == InitWith({"pg", "mssql"}, {ArticleModel, PageModel, PostModel, LandingModel})

CallsWith(P) ==
  \/ Quiet /\ \E values \in P : CreateStart(values)
  \/ Quiet /\ \E id \in 1..MaxEntity, values \in P : UpdateStart(id, values)
  \/ call.pc = "fields" /\ \E ord \in UNION { Perms(n) : n \in 0..MaxItems } : FieldStep(ord)
  \/ Finish
  \/ Quiet /\ \E id \in 1..MaxEntity : DeleteStart(TRUE, id, "-", << id >>)
  \/ Quiet /\ \E title \in Titles \cup {"-"}, ord \in SeqsUpTo(1..MaxEntity, MaxEntity) :
                 DeleteStart(FALSE, 0, title, ord)
  \/ DeleteOneBegin
  \/ DeleteComponents
  \/ DeleteRow
  \/ BackendFailure
  \/ Return

Calls == CallsWith(Payloads)

\* every call is made without a transaction handle
Next == Calls

Spec == Init /\ [][Next]_vars

\* the caller may open a transaction and pass its handle to the calls
NextOuter == Calls \/ BeginOuter \/ CommitOuter \/ RollbackOuter

SpecOuter == InitWith({"pg", "mssql"}, {PostModel}) /\ [][NextOuter]_vars

\* a model whose dynamic zone comes after another component field
SpecTeaser == InitWith({"pg", "mssql"}, {TeaserModel}) /\ [][Next]_vars

\* payloads that carry undeclared keys and timestamps, and findOne
NextRoundTrip ==
  \/ CallsWith(RichPayloads)
  \/ Quiet /\ \E id \in 1..(MaxEntity + 1) : FindOne(id)

SpecRoundTrip == InitWith({"pg", "mssql"}, {NoteModel}) /\ [][NextRoundTrip]_vars

\* creates alone, with required and optional fields of every kind
NextCreate ==
  \/ Quiet /\ \E values \in Payloads : CreateStart(values)
  \/ call.pc = "fields" /\ \E ord \in UNION { Perms(n) : n \in 0..MaxItems } : FieldStep(ord)
  \/ Finish
  \/ BackendFailure
  \/ Return

SpecCreate ==
  InitWith({"pg", "mssql"}, {ArticleModel, PageModel, LandingModel, BannerModel})
    /\ [][NextCreate]_vars

\* search over every table of at most MaxEntity entities
SearchRows(i) ==
  { [id |-> i, title |-> t, extra |-> {}, views |-> v, flag |-> b] :
      t \in {"a", "42", "true"}, v \in {0, 42}, b \in BOOLEAN }

SearchTables ==
  UNION { { { f[i] : i \in I } :
              f \in { g \in [I -> UNION { SearchRows(i) : i \in I }] :
                        \A i \in I : g[i] \in SearchRows(i) } } :
          I \in SUBSET (1..MaxEntity) }

InitSearch ==
  /\ model \in SearchModels
  /\ client = model.client
  /\ db \in { [EmptyDB EXCEPT !.rows = R] : R \in SearchTables }
  /\ seq = [entity |-> MaxEntity, comp |-> [u \in Components |-> 0]]
  /\ otx = [open |-> FALSE, w |-> EmptyDB]
  /\ call = IdleCall
  /\ dirty = FALSE
  /\ race = NoRace

NextSearch ==
  \/ Quiet /\ \E q \in Queries : Search(q)
  \/ Return

SpecSearch == InitSearch /\ [][NextSearch]_vars

\* the validators of repeatable and dynamic-zone fields alone, for every
\* attribute definition of CountAttrs
NextValidate ==
  \/ Quiet /\ \E value \in CountValues(model.attributes[componentKeys[1]]) :
                 ValidateInput(value)
  \/ Return

SpecValidate ==
  InitWith({"pg"}, { CountModel(a) : a \in CountAttrs }) /\ [][NextValidate]_vars

(* ======================= properties of the calls ====================== *)
Done      == call.pc = "done"
InFlight  == call.pc \in {"fields", "finish"}
Settled   == call.pc \in {"idle", "done"}
Post      == Visible

EntityIds == 1..(MaxEntity + 1)

FieldJoins(w, e, k) == { j \in w.joins : j.entity = e /\ j.field = k }
EntityJoins(w, e)   == { j \in w.joins : j.entity = e }
JoinedComps(w, J) ==
  { c \in w.comps : \E j \in J : /\ j.component_id = c.id
                                 /\ j.component_type = CollectionName(c.uid) }

\* what a join record, a component row and a payload item of field k refer to
JoinRef(j) == << j.component_type, j.component_id >>
CompRef(c) == << CollectionName(c.uid), c.id >>
ItemRef(k, item) ==
  LET uid == IF model.attributes[k].type = "dynamiczone"
               THEN item.comp ELSE model.attributes[k].component
  IN << IF uid \in Components THEN CollectionName(uid) ELSE "-", item.id >>

\* the filter of the call matched no entity
NoMatch == ~\E r \in call.pre.rows : r.id = call.id

\* the call has entered its write phase (the entity row was inserted / patched)
Entered == call.k > 0

(* ------------------------------- C1 ----------------------------------- *)
\* C1 as stated: a create or update that fails after it entered its write
\* phase leaves the entity rows, component instances, join records and
\* relation links exactly as they were before the call.
C1_AllRolledBack ==
  (Done /\ call.op \in {"create", "update"} /\ call.status # 200 /\ Entered)
    => db = call.pre

\* C1 amended: that holds when the call runs in a transaction it opened
\* itself (no handle passed, dialect not mssql); the writes of such a call
\* are invisible until it commits, and all are rolled back when it fails.
C1_OwnTransactionAtomic ==
  (call.op \in {"create", "update"} /\ call.mode = "own"
     /\ (InFlight \/ (Done /\ call.status # 200 /\ Entered)))
    => db = call.pre

C1_Witness ==
  /\ Done /\ call.op = "create" /\ call.mode = "own"
  /\ call.status = 400 /\ Entered
  /\ seq.entity = Cardinality(db.rows) + 1

(* ------------------------------- C2 ----------------------------------- *)
\* C2: after any sequence of successful calls, for every (entity, field) the
\* order values of its join records are exactly 1..N, N the number of those
\* records, and no two of them reference the same (component_type,
\* component_id).
C2_DenseOrder ==
  (Settled /\ ~dirty) =>
    \A e \in EntityIds, k \in componentKeySet :
      LET J == FieldJoins(db, e, k) IN
      /\ { j.order : j \in J } = 1..Cardinality(J)
      /\ \A j1, j2 \in J :
           (j1.component_type = j2.component_type
              /\ j1.component_id = j2.component_id) => j1 = j2

(* ------------------------------- C3 ----------------------------------- *)
\* C3: after any sequence of successful calls every component instance is
\* referenced by exactly one join record, and every join record references
\* an existing component instance and an existing entity row.
C3_ExclusiveOwnership ==
  (Settled /\ ~dirty) =>
    /\ \A c \in db.comps :
         Cardinality({ j \in db.joins : /\ j.component_id = c.id
                                        /\ j.component_type = CollectionName(c.uid) }) = 1
    /\ \A j \in db.joins :
         /\ \E c \in db.comps : /\ j.component_id = c.id
                                /\ j.component_type = CollectionName(c.uid)
         /\ \E r \in db.rows : r.id = j.entity

\* an update has deleted a component instance and others are still joined
C3_Witness ==
  /\ Done /\ call.op = "update" /\ call.status = 200 /\ ~dirty
  /\ \E c \in call.pre.comps : ~\E d \in db.comps : d.uid = c.uid /\ d.id = c.id
  /\ db.joins # {}

(* ------------------------------- C4 ----------------------------------- *)
\* the entities a finished delete call was to delete
Deleted ==
  IF call.pk THEN { r.id : r \in { x \in call.pre.rows : x.id = call.id } }
  ELSE { r.id : r \in { x \in call.pre.rows : x.title = call.values.title } }

\* C4: after a successful delete of entity E its row is gone, no join record
\* has E as owner, every component instance that was joined to E is gone and
\* no relation link of E is left.
C4_DeleteLeavesNothing ==
  (Done /\ call.op = "delete" /\ call.status = 200) =>
    \A e \in Deleted :
      /\ ~\E r \in Post.rows : r.id = e
      /\ EntityJoins(Post, e) = {}
      /\ \A c \in JoinedComps(call.pre, EntityJoins(call.pre, e)) :
           ~\E d \in Post.comps : d.uid = c.uid /\ d.id = c.id
      /\ ~\E l \in Post.links : l.id = e

\* an entity with a component and relation links has been deleted
C4_Witness ==
  /\ Done /\ call.op = "delete" /\ call.status = 200 /\ call.result = "entity"
  /\ JoinedComps(call.pre, EntityJoins(call.pre, call.id)) # {}
  /\ \E l \in call.pre.links : l.id = call.id
  /\ \E a, b \in call.pre.links : a.id = call.id /\ b.id = call.id /\ a.alias # b.alias

(* ------------------------------- C5 ----------------------------------- *)
RowsOf(w, e) == { r \in w.rows : r.id = e }

\* C5: an update leaves every scalar attribute and every component field
\* whose key is absent from the payload exactly as it was (value, join
\* records, component instances), a required component field included.
C5_PartialPatch ==
  (Done /\ call.op = "update" /\ call.status # 404) =>
    /\ call.values.title = "-" => RowsOf(Post, call.id) = RowsOf(call.pre, call.id)
    /\ \A k \in componentKeySet :
         ~Has(call.values, k) =>
            /\ FieldJoins(Post, call.id, k) = FieldJoins(call.pre, call.id, k)
            /\ JoinedComps(Post, FieldJoins(Post, call.id, k))
                 = JoinedComps(call.pre, FieldJoins(call.pre, call.id, k))

\* an update changed something and left an absent required component field,
\* which holds components, alone
C5_Witness ==
  /\ Done /\ call.op = "update" /\ call.status = 200
  /\ Post # call.pre
  /\ \E k \in componentKeySet :
       /\ ~Has(call.values, k)
       /\ model.attributes[k].required
       /\ FieldJoins(Post, call.id, k) # {}

\* an update rewrote one component field and left the other one, absent
\* from the payload and holding a component of the same table, alone
C5_WitnessTwoFields ==
  /\ Done /\ call.op = "update" /\ call.status = 200
  /\ \E k1, k2 \in componentKeySet :
       /\ Has(call.values, k1) /\ ~Has(call.values, k2)
       /\ FieldJoins(Post, call.id, k1) # FieldJoins(call.pre, call.id, k1)
       /\ FieldJoins(Post, call.id, k2) # {}

(* ------------------------------- C6 ----------------------------------- *)
\* C6: a successful update of a component field deletes the component
\* instances of the field whose ids the payload does not list, with their
\* join records; patches in place those it lists; creates one component
\* instance and one join record per item without id; afterwards the item at
\* position i is the one whose join record has order i, and the field has as
\* many join records as the payload has items.
C6_Reconcile ==
  (Done /\ call.op = "update" /\ call.status = 200) =>
    \A k \in componentKeySet :
      Has(call.values, k) =>
        LET items    == call.values.fields[k].items
            withId   == { n \in DOMAIN items : HasId(items[n]) }
            keepRefs == { ItemRef(k, items[i]) : i \in withId }
            preJ     == FieldJoins(call.pre, call.id, k)
            postJ    == FieldJoins(Post, call.id, k)
            fresh    == { j \in postJ :
                            JoinRef(j) \notin { CompRef(c) : c \in call.pre.comps } }
        IN /\ \A j \in preJ :
                JoinRef(j) \notin keepRefs =>
                  /\ JoinRef(j) \notin { CompRef(c) : c \in Post.comps }
                  /\ JoinRef(j) \notin { JoinRef(q) : q \in Post.joins }
           /\ \A ref \in keepRefs :
                \E c \in Post.comps : CompRef(c) = ref /\ c.text = "y"
           /\ Cardinality(fresh) = Cardinality(DOMAIN items \ withId)
           /\ \A j \in fresh : \E c \in Post.comps : CompRef(c) = JoinRef(j)
           /\ \A i \in DOMAIN items :
                \E j \in postJ :
                  /\ j.order = i
                  /\ IF HasId(items[i]) THEN JoinRef(j) = ItemRef(k, items[i])
                     ELSE j \in fresh
           /\ Cardinality(postJ) = Len(items)

(* ------------------------------- C7 ----------------------------------- *)
\* the component fields of the payload naming an id that is not joined to
\* (entity, field)
ForeignFields ==
  { k \in componentKeySet :
      \E i \in DOMAIN call.values.fields[k].items :
         /\ HasId(call.values.fields[k].items[i])
         /\ ItemRef(k, call.values.fields[k].items[i])
              \notin { JoinRef(j) : j \in FieldJoins(call.pre, call.id, k) } }

\* C7 as stated: an update of A naming a component id that is not joined to
\* (A, field) fails with a 400 error and leaves all join records and
\* component instances, those of A and of every other entity, as they were.
C7_AllUnchanged ==
  (Done /\ call.op = "update" /\ ~NoMatch /\ call.status # 500 /\ ForeignFields # {}) =>
    /\ call.status = 400
    /\ Post.joins = call.pre.joins
    /\ Post.comps = call.pre.comps

\* C7 amended: it fails with a 400 error raised before anything of that
\* field is written: the join records and component instances of every
\* other entity, and those of A under that field, are as they were; all of
\* A's are when the update runs in a transaction it opened itself.
C7_RefIntegrity ==
  (Done /\ call.op = "update" /\ ~NoMatch /\ call.status # 500 /\ ForeignFields # {}) =>
    /\ call.status = 400
    /\ \A e \in EntityIds \ {call.id} :
         /\ EntityJoins(Post, e) = EntityJoins(call.pre, e)
         /\ JoinedComps(Post, EntityJoins(Post, e))
              = JoinedComps(call.pre, EntityJoins(call.pre, e))
    /\ \A k \in ForeignFields :
         /\ FieldJoins(Post, call.id, k) = FieldJoins(call.pre, call.id, k)
         /\ JoinedComps(Post, FieldJoins(Post, call.id, k))
              = JoinedComps(call.pre, FieldJoins(call.pre, call.id, k))
    /\ call.mode = "own" => Post = call.pre

\* the update named a component that is joined to another entity under the
\* same field
C7_Witness ==
  /\ Done /\ call.op = "update" /\ call.status = 400
  /\ \E k \in ForeignFields, j \in Post.joins :
       /\ j.field = k /\ j.entity # call.id
       /\ \E i \in DOMAIN call.values.fields[k].items :
            ItemRef(k, call.values.fields[k].items[i]) = JoinRef(j)
       /\ FieldJoins(Post, call.id, k) # {}

(* ------------------------------- C8 ----------------------------------- *)
\* the payload of field k lists exactly the ids joined to (entity, field)
\* before the call, each once, and no item without id
ListsCurrentIds(k) ==
  LET items == call.values.fields[k].items IN
  /\ call.values.fields[k].kind \in {"array", "object"}
  /\ \A i \in DOMAIN items : HasId(items[i])
  /\ { ItemRef(k, items[i]) : i \in DOMAIN items }
       = { JoinRef(j) : j \in FieldJoins(call.pre, call.id, k) }
  /\ Len(items) = Cardinality(FieldJoins(call.pre, call.id, k))

Unordered(J) == { [j EXCEPT !.order = 0] : j \in J }

C10_UpdateNotFound ==
  (Done /\ call.op = "update" /\ NoMatch) =>
    (call.status = 404 /\ ~Entered /\ Post = call.pre)

C10_Witness ==
  /\ Done /\ call.op = "update" /\ NoMatch /\ call.status = 404
  /\ PayloadKeys(call.values) # {}
  /\ Post.rows # {}

(* ------------------------------- C11 ---------------------------------- *)
\* the value is an array of well-formed items
WellFormed(value) ==
  /\ value.kind = "array"
  /\ \A i \in DOMAIN value.items : value.items[i].obj

\* C11: for every required, min, max and payload length L, a well-formed
\* array is rejected with a 400 error exactly when min is configured and
\* L < min and (the field is required or L > 0), or max is configured and
\* L > max.
C11_ItemCountRule ==
  (Done /\ call.op = "validate" /\ WellFormed(call.values.fields["items"])) =>
    LET attr == model.attributes["items"]
        L    == Len(call.values.fields["items"].items)
    IN /\ call.status \in {0, 400}
       /\ (call.status = 400) <=>
            \/ ("min" \in attr.configured /\ L < attr.min /\ (attr.required \/ L > 0))
            \/ ("max" \in attr.configured /\ L > attr.max)

(* ------------------------------- C12 ---------------------------------- *)
\* the dynamic-zone payload of field k has an item without __component or
\* with a __component that is not an allowed type of the field
BadDiscriminant(k) ==
  /\ model.attributes[k].type = "dynamiczone"
  /\ call.values.fields[k].kind = "array"
  /\ \E i \in DOMAIN call.values.fields[k].items :
       /\ call.values.fields[k].items[i].obj
       /\ call.values.fields[k].items[i].comp \notin model.attributes[k].components

\* the create, or the update of an entity that exists, ended without a
\* backend failure
Answered ==
  /\ Done /\ call.op \in {"create", "update"}
  /\ call.op = "update" => ~NoMatch
  /\ call.status # 500

\* C12: a create or update whose dynamic-zone payload has an item without
\* __component, or with a __component outside the allowed types, fails with
\* a 400 error whatever the other items and keys are, and no component
\* instance or join record of that field is written.
C12_DynamicZoneDiscriminant ==
  Answered =>
    \A k \in componentKeySet :
      BadDiscriminant(k) =>
        /\ call.status = 400
        /\ FieldJoins(Post, call.id, k) = FieldJoins(call.pre, call.id, k)
        /\ JoinedComps(Post, FieldJoins(Post, call.id, k))
             = JoinedComps(call.pre, FieldJoins(call.pre, call.id, k))
        /\ \A c \in Post.comps \ call.pre.comps :
             \E j \in Post.joins : JoinRef(j) = CompRef(c) /\ j.field # k

\* an update with one good and one bad item was refused after the field
\* before the zone had been written; the zone holds components
C12_Witness ==
  /\ Answered /\ call.op = "update" /\ call.status = 400
  /\ Post # call.pre
  /\ \E k \in componentKeySet :
       /\ BadDiscriminant(k)
       /\ Len(call.values.fields[k].items) = 2
       /\ \E i \in 1..2 : call.values.fields[k].items[i].comp
                              \in model.attributes[k].components
       /\ FieldJoins(Post, call.id, k) # {}

(* ------------------------------- C13 ---------------------------------- *)
\* the keys of the payload that are declared attributes and neither a
\* relation, a component field nor a timestamp
ScalarSubset(values) ==
  { key \in PayloadKeys(values) :
      key \in allAttributes /\ key \notin excludedKeys /\ key \notin timestamps }

\* the keys of the payload an entity holds a value of
StoredKeys(e, values) ==
  (IF e.title # "-" /\ e.title = values.title THEN {"title"} ELSE {}) \cup e.extra

\* C13: the entity findOne returns right after a successful create(P) has
\* the value P gave for each key of P that is a declared non-relation,
\* non-component, non-timestamp attribute, and stores no key of P the model
\* does not declare; findOne returns null, not an error, when no entity
\* matches.
C13_RoundTrip ==
  /\ (Done /\ call.op = "create" /\ call.status = 200) =>
        /\ findOne(Post, call.id) # {}
        /\ \A e \in findOne(Post, call.id) :
             /\ e.id = call.id
             /\ ScalarSubset(call.values) \subseteq StoredKeys(e, call.values)
             /\ \A key \in PayloadKeys(call.values) \ allAttributes :
                  key \notin StoredKeys(e, call.values)
  /\ (Done /\ call.op = "findOne" /\ NoMatch) =>
        (call.status = 200 /\ call.result = "null")

\* a payload with a title, a declared key, an undeclared key and a timestamp
\* has been stored
C13_Witness ==
  /\ Done /\ call.op = "create" /\ call.status = 200
  /\ call.values.title = "b"
  /\ call.values.extra = ExtraKeys
  /\ \E e \in findOne(Post, call.id) : e.title = "b" /\ e.extra = {"views"}

\* findOne has matched nothing while other entities exist
C13_WitnessNull ==
  /\ Done /\ call.op = "findOne" /\ NoMatch /\ call.result = "null"
  /\ Post.rows # {}

(* ------------------------------- C14 ---------------------------------- *)
\* entity e is deleted with its join records and component instances
GoneAfter(e) ==
  /\ RowsOf(Post, e) = {}
  /\ EntityJoins(Post, e) = {}
  /\ \A c \in JoinedComps(call.pre, EntityJoins(call.pre, e)) :
       CompRef(c) \notin { CompRef(d) : d \in Post.comps }

\* the row, join records and component instances of e are as before the call
IntactAfter(e) ==
  /\ RowsOf(Post, e) = RowsOf(call.pre, e)
  /\ EntityJoins(Post, e) = EntityJoins(call.pre, e)
  /\ JoinedComps(Post, EntityJoins(Post, e))
       = JoinedComps(call.pre, EntityJoins(call.pre, e))

\* a delete by a filter that matched several entities has ended
ManyDeleted == Done /\ call.op = "delete" /\ ~call.pk /\ Cardinality(Deleted) > 1

\* C14 as stated: a delete by a filter that is not a primary key, without an
\* outer transaction, deletes each matched entity in its own transaction:
\* whatever fails, every matched entity is either deleted (and stays so) or
\* has its row, join records and component instances intact.
C14_EachDeleteAtomic ==
  ManyDeleted => \A e \in Deleted : GoneAfter(e) \/ IntactAfter(e)

\* C14 amended: that holds when the client is not mssql; the call succeeds
\* exactly when all matched entities are deleted.
C14_EachDeleteAtomicOwn ==
  (ManyDeleted /\ client # "mssql") =>
    /\ \A e \in Deleted : GoneAfter(e) \/ IntactAfter(e)
    /\ call.status = 200 <=> \A e \in Deleted : GoneAfter(e)

\* one matched entity is deleted, the deletion of another one failed and
\* left it, with its components, in place
C14_Witness ==
  /\ ManyDeleted /\ client # "mssql" /\ call.status = 500
  /\ \E e1, e2 \in Deleted :
       /\ GoneAfter(e1) /\ RowsOf(call.pre, e1) # {}
       /\ IntactAfter(e2) /\ RowsOf(Post, e2) # {}
       /\ EntityJoins(Post, e2) # {}
       /\ EntityJoins(call.pre, e1) # {}

(* ------------------------------- C15 ---------------------------------- *)
\* the transactional phase of a delete by primary key failed and the
\* transaction it had opened was rolled back
DeleteRolledBack ==
  /\ Done /\ call.op = "delete" /\ call.pk
  /\ call.status = 500 /\ call.mode = "own"

\* C15: in a single-entity delete the relation aliases are nulled / emptied
\* before the transaction is opened: when the transactional phase fails and
\* is rolled back, the entity row, its join records and its component
\* instances are still there and its relation links are gone.
C15_UnlinkOutsideTransaction ==
  DeleteRolledBack =>
    /\ RowsOf(Post, call.id) # {}
    /\ IntactAfter(call.id)
    /\ ~\E l \in Post.links : l.id = call.id
    /\ Post.links = { l \in call.pre.links : l.id # call.id }

\* an entity with a component and links to both aliases has lost the links
\* and nothing else
C15_Witness ==
  /\ DeleteRolledBack
  /\ \E a, b \in call.pre.links : a.id = call.id /\ b.id = call.id /\ a.alias # b.alias
  /\ EntityJoins(Post, call.id) # {}
  /\ Post.links # call.pre.links

(* ------------------------------- C16 ---------------------------------- *)
\* the three predicates of the search, for a row and the query of the call
NumberMatch(r) ==
  /\ ~toNumber(call.values.title).nan
  /\ \E a \in DOMAIN model.types :
       /\ model.types[a] \in {"integer", "decimal", "float"}
       /\ r[a] = toNumber(call.values.title).n

BooleanMatch(r) ==
  /\ call.values.title \in {"true", "false"}
  /\ \E a \in DOMAIN model.types :
       model.types[a] = "boolean" /\ r[a] = (call.values.title = "true")

TextMatch(r) ==
  FullText(r, { a \in DOMAIN model.types : model.types[a] \in {"string", "text"} },
           call.values.title)

\* C16: search returns exactly the entities for which the query parses as a
\* number equal to a numeric attribute, or is "true" / "false" and equal to a
\* boolean attribute, or matches the full-text predicate over the string and
\* text attributes: one predicate is enough, none is not.
C16_SearchOr ==
  (Done /\ call.op = "search") =>
    /\ call.status = 200
    /\ Range(call.queue)
         = { r.id : r \in { x \in Post.rows :
                               NumberMatch(x) \/ BooleanMatch(x) \/ TextMatch(x) } }

(* ------------------------------- C17 ---------------------------------- *)
\* what processing the field at hand leaves when its tasks complete in the
\* order ord
Outcome(ord) ==
  LET st == [w |-> Cur, seq |-> seq, err |-> 0] IN
  IF call.op = "create"
    THEN createComponentsField(st, call.id, call.values, componentKeys[call.k], ord)
    ELSE updateComponentsField(st, call.id, call.values, componentKeys[call.k], ord)

\* the component instances and join records of a working database, the ids
\* the backend handed out during the step standing for one another
Fresh(uid, id) == id > seq.comp[uid]

TaskView(st) ==
  [err   |-> st.err,
   n     |-> Cardinality(st.w.comps),
   comps |-> { [uid |-> c.uid, text |-> c.text,
                id |-> IF Fresh(c.uid, c.id) THEN 0 ELSE c.id] : c \in st.w.comps },
   joins |-> { [entity |-> j.entity, field |-> j.field, order |-> j.order,
                component_type |-> j.component_type,
                id |-> IF Fresh(ComponentOfType(j.component_type), j.component_id)
                         THEN 0 ELSE j.component_id] : j \in st.w.joins }]

Orders == Perms(Len(call.values.fields[componentKeys[call.k]].items))

\* C17: for every payload, every completion order of the tasks issued
\* together for a field leaves the same component instances and the same
\* join records, the order column being the array position.
C17_OrderIndependent ==
  call.pc = "fields" =>
    \A o1, o2 \in Orders : TaskView(Outcome(o1)) = TaskView(Outcome(o2))

(* ------------------------------- C18 ---------------------------------- *)
\* a create, an update or a delete by primary key is at work
SingleWrite ==
  /\ call.pc \in {"fields", "finish", "dcomp", "drow"}
  /\ call.op = "delete" => call.pk

\* the scope the call runs in, against the handle it got and the client
ScopeChosen ==
  SingleWrite =>
    /\ call.mode = "own" <=> (~otx.open /\ client # "mssql")
    /\ otx.open => call.mode = "outer"
    /\ (client = "mssql" /\ ~otx.open) => call.mode = "none"
    /\ call.mode # "own" => call.w = EmptyDB

\* while the caller's transaction is open nothing is written outside it
UnderHandle == (otx.open /\ otx'.open) => db' = db

\* a transaction the call opened reaches the database on success only
CommitOnSuccess ==
  (SingleWrite /\ call.mode = "own" /\ db' # db) =>
    /\ call'.pc = "done" /\ call'.status = 200
    /\ db' = (IF call.op = "delete"
                THEN [call.w EXCEPT !.rows = { r \in @ : r.id # call.id }]
                ELSE IF call.op = "create" \/ pickRelations(call.values) # {}
                  THEN UpdateRelations(call.w, call.id, call.values.rel)
                  ELSE call.w)

\* C18: a create, update or single delete opens a transaction of its own,
\* committed on success and rolled back on error, exactly when it got no
\* handle and the client is not mssql; with a handle it opens none and every
\* write goes under that handle; on mssql it never opens one and writes
\* under the handle passed, or under none.
C18_TransactionScope ==
  /\ []ScopeChosen
  /\ [][UnderHandle]_vars
  /\ [][CommitOnSuccess]_vars

\* a call given a handle has written under it, and nothing is committed
C18_Witness ==
  /\ SingleWrite /\ call.pc = "finish" /\ call.mode = "outer" /\ client = "pg"
  /\ otx.w.comps # {} /\ db = EmptyDB

\* a call on mssql without a handle has written straight to the database
C18_WitnessMssql ==
  /\ SingleWrite /\ call.mode = "none" /\ client = "mssql"
  /\ ~otx.open /\ db.rows # {}

(* ------------------------------- C19 ---------------------------------- *)
\* the items given for field k: none for an absent key and for null
Given(k) == call.values.fields[k].items

NewComps == Post.comps \ call.pre.comps

\* C19: a required component or dynamic-zone field absent from the payload
\* makes create fail with status 400; an absent optional field and a
\* non-repeatable field given null write nothing; otherwise every item of
\* the value yields one new component instance and one join record with the
\* attribute name as field, the collection name of the component model as
\* component_type and the 1-based position as order, and the component data
\* stored holds no __component key.
C19_CreateComponents ==
  (Done /\ call.op = "create") =>
    /\ (\E k \in componentKeySet : model.attributes[k].required /\ ~Has(call.values, k))
         => call.status \in {400, 500}
    /\ \A k \in componentKeySet :
         (~Has(call.values, k) \/ call.values.fields[k].kind = "null")
           => FieldJoins(Post, call.id, k) = {}
    /\ call.status = 200 =>
         /\ \A k \in componentKeySet :
              LET J == FieldJoins(Post, call.id, k) IN
              /\ Cardinality(J) = Len(Given(k))
              /\ \A j1, j2 \in J : JoinRef(j1) = JoinRef(j2) => j1 = j2
              /\ \A i \in DOMAIN Given(k) :
                   \E j \in J, c \in NewComps :
                     /\ j.order = i
                     /\ j.component_type =
                          CollectionName(UidOf(model.attributes[k], Given(k))[i])
                     /\ CompRef(c) = JoinRef(j)
                     /\ c.text = Given(k)[i].text
                     /\ "__component" \notin c.keys
         /\ Cardinality(NewComps)
              = Cardinality({ ki \in componentKeySet \X (1..MaxItems) :
                                ki[2] \in DOMAIN Given(ki[1]) })

\* a create has stored a dynamic zone of two items
C19_Witness ==
  /\ Done /\ call.op = "create" /\ call.status = 200
  /\ \E k \in componentKeySet :
       /\ model.attributes[k].type = "dynamiczone"
       /\ Len(Given(k)) = 2
       /\ Cardinality(FieldJoins(Post, call.id, k)) = 2

\* a create without its required dynamic zone was refused
C19_WitnessRequired ==
  /\ Done /\ call.op = "create" /\ call.status = 400
  /\ \E k \in componentKeySet :
       /\ model.attributes[k].type = "dynamiczone" /\ model.attributes[k].required
       /\ ~Has(call.values, k) /\ call.k = 2

(* ------------------------------- C20 ---------------------------------- *)
\* the join records of field k of the entity of the call, and the
\* component instances they reference
FieldRows(w, k) ==
  [joins |-> FieldJoins(w, call.id, k),
   comps |-> JoinedComps(w, FieldJoins(w, call.id, k))]

\* the step refused the field at hand: its validation or its id check failed
Refused == call.pc = "fields" /\ call'.pc = "done" /\ call'.status = 400

\* C20: the validation of a field and the check of the ids given for it end
\* before the first write to the component instances and join records of
\* the field, so a field refused is left with the rows it had when its
\* processing began, rollback or not.
C20_ChecksBeforeWrites ==
  [][Refused => FieldRows(Visible', componentKeys[call.k])
                  = FieldRows(Cur, componentKeys[call.k])]_vars

\* without a transaction, the second field of an update was refused after
\* the first one had been written; the field refused holds a component
C20_Witness ==
  /\ Done /\ call.op = "update" /\ call.status = 400 /\ call.mode = "none"
  /\ call.k = 2 /\ Post # call.pre
  /\ FieldJoins(Post, call.id, componentKeys[2]) # {}
  /\ Has(call.values, componentKeys[2])

(* ------------------------------- C21 ---------------------------------- *)
\* the payload of field k lists the component a join record references
Lists(k, j) ==
  \E i \in DOMAIN Given(k) : HasId(Given(k)[i]) /\ ItemRef(k, Given(k)[i]) = JoinRef(j)

DynamicZones == { k \in componentKeySet : model.attributes[k].type = "dynamiczone" }

\* two components of the zone with one id and two types, one of them listed
Twins(k) ==
  { jj \in FieldJoins(call.pre, call.id, k) \X FieldJoins(call.pre, call.id, k) :
      /\ jj[1].component_id = jj[2].component_id
      /\ jj[1].component_type # jj[2].component_type
      /\ Lists(k, jj[1]) /\ ~Lists(k, jj[2]) }

\* an id given for the zone is joined to it under another type only
WrongType(k) ==
  \E i \in DOMAIN Given(k) :
    /\ HasId(Given(k)[i])
    /\ \E j \in FieldJoins(call.pre, call.id, k) : j.component_id = Given(k)[i].id
    /\ ~\E j \in FieldJoins(call.pre, call.id, k) : JoinRef(j) = ItemRef(k, Given(k)[i])

\* C21: the components of a dynamic zone are matched on (id, component
\* type): of two components of the zone with the same id and different
\* types, an update listing one and not the other keeps and patches the one
\* listed and deletes the row and the join record of the other; an update
\* listing an id joined to the zone under another type only fails with 400.
C21_PairMatching ==
  (Done /\ call.op = "update" /\ ~NoMatch) =>
    \A k \in DynamicZones :
      /\ call.status = 200 =>
           \A jj \in Twins(k) :
             /\ \E j \in FieldJoins(Post, call.id, k) : JoinRef(j) = JoinRef(jj[1])
             /\ \E c \in Post.comps : CompRef(c) = JoinRef(jj[1]) /\ c.text = "y"
             /\ ~\E j \in Post.joins : JoinRef(j) = JoinRef(jj[2])
             /\ ~\E c \in Post.comps : CompRef(c) = JoinRef(jj[2])
      /\ WrongType(k) => call.status \in {400, 500}

\* of a section and a quote with the same id, the update kept one
C21_Witness ==
  /\ Done /\ call.op = "update" /\ call.status = 200
  /\ \E k \in DynamicZones :
       /\ Twins(k) # {}
       /\ Cardinality(FieldJoins(Post, call.id, k)) = 1

\* an id of the zone given under the wrong type was refused
C21_WitnessWrongType ==
  /\ Done /\ call.op = "update" /\ call.status = 400
  /\ \E k \in DynamicZones :
       /\ WrongType(k)
       /\ validateDynamiczoneInput(call.values.fields[k], model.attributes[k]) = 0

(* ------------------------------- C22 ---------------------------------- *)
\* what a whole update of the field with the value given leaves, its tasks
\* completing in the order ord
Serial(st, value, ord) ==
  updateComponentsField([st EXCEPT !.err = 0], RaceEntity,
                        [NoValues EXCEPT !.fields[RaceKey] = value], RaceKey, ord)

\* the databases the two calls leave when one is awaited before the other
\* is made, in either order
SerialOutcomes ==
  UNION { { Serial(Serial(race.init, race.p[a].values, o1),
                   race.p[3 - a].values, o2).w :
              o1 \in Perms(Len(race.p[a].values.items)),
              o2 \in Perms(Len(race.p[3 - a].values.items)) } : a \in 1..2 }

BothDone == race.p # << >> /\ \A n \in 1..2 : race.p[n].pc = "done"

RaceOrders == { j.order : j \in FieldJoins(db, RaceEntity, RaceKey) }

\* C22: no lock is taken between calls.  Two updates of the same entity and
\* component field leave one of the two serial outcomes when the queries of
\* one are all made before the first query of the other; when their queries
\* interleave, they can leave a state no serial order leaves (witness).
C22_SerialUnlessInterleaved ==
  (BothDone /\ ~race.mixed) => db \in SerialOutcomes

\* both updates succeeded, their queries interleaved, and the field is left
\* in a state of no serial order, its order values not 1..N
C22_Witness ==
  /\ BothDone /\ race.mixed
  /\ \A n \in 1..2 : race.p[n].status = 200
  /\ db \notin SerialOutcomes
  /\ RaceOrders # 1..Cardinality(FieldJoins(db, RaceEntity, RaceKey))

\* a join record of the field references a component row that is gone
C22_Dangling ==
  /\ race.p # << >>
  /\ \E j \in FieldJoins(db, RaceEntity, RaceKey) :
       ~\E c \in db.comps : CompRef(c) = JoinRef(j)

(* ------------------------------- C23 ---------------------------------- *)
SingleFields ==
  { k \in componentKeySet :
      model.attributes[k].type = "component" /\ ~model.attributes[k].repeatable }

\* the components the join records J reference are neither joined nor stored
Removed(J) ==
  \A j \in J :
    /\ ~\E q \in Post.joins : JoinRef(q) = JoinRef(j)
    /\ ~\E c \in Post.comps : CompRef(c) = JoinRef(j)

\* C23: after successful calls every (entity, non-repeatable component
\* field) has no join record or exactly one, with order 1; an update of the
\* field with an object without id deletes the row and the join record of the
\* previous component and creates one new pair; an update with null removes
\* the component.
C23_AtMostOne ==
  /\ (Settled /\ ~dirty) =>
       \A e \in EntityIds, k \in SingleFields :
         /\ Cardinality(FieldJoins(db, e, k)) <= 1
         /\ \A j \in FieldJoins(db, e, k) : j.order = 1
  /\ (Done /\ call.op = "update" /\ call.status = 200) =>
       \A k \in SingleFields :
         LET value == call.values.fields[k]
             preJ  == FieldJoins(call.pre, call.id, k)
             postJ == FieldJoins(Post, call.id, k)
         IN /\ (value.kind = "object" /\ ~HasId(value.items[1])) =>
                 /\ Removed(preJ)
                 /\ Cardinality(postJ) = 1
                 /\ \A j \in postJ :
                      /\ \E c \in Post.comps \ call.pre.comps : CompRef(c) = JoinRef(j)
                      /\ j.component_type = CollectionName(model.attributes[k].component)
            /\ value.kind = "null" => (Removed(preJ) /\ postJ = {})

\* an update replaced the component of a non-repeatable field
C23_Witness ==
  /\ Done /\ call.op = "update" /\ call.status = 200
  /\ \E k \in SingleFields :
       /\ call.values.fields[k].kind = "object"
       /\ ~HasId(call.values.fields[k].items[1])
       /\ FieldJoins(call.pre, call.id, k) # {}
       /\ FieldJoins(Post, call.id, k) # {}

\* an update with null removed the component of a non-repeatable field
C23_WitnessNull ==
  /\ Done /\ call.op = "update" /\ call.status = 200
  /\ \E k \in SingleFields :
       /\ call.values.fields[k].kind = "null"
       /\ FieldJoins(call.pre, call.id, k) # {}

====
